---------------------------- MODULE Spec2Model ----------------------------
(***************************************************************************)
(* Model of salary_vs_inflation.py: the CPI lookup (calculate_inflation),  *)
(* the salary adjustment (calculate_adjusted_salaries) and the part of the *)
(* Streamlit script that feeds it (input table, checkbox, reference-year   *)
(* slider).                                                                *)
(*                                                                         *)
(* Representation.                                                         *)
(*  - A salaries dict is a sequence of <<year, salary>> pairs in insertion *)
(*    order with pairwise different years (a Python dict).                 *)
(*  - A missing salary (None in the dict, NaN in a pandas column) is NaN.  *)
(*  - target_year = None is the "floating" policy of the code.             *)
(*  - Floats are exact rationals <<numerator, denominator>> in lowest      *)
(*    terms; a NaN float is NaNFrac.                                       *)
(*  - A pandas frame is the sequence of its rows in index order.           *)
(*  - data/cpi_by_year.csv is not part of the sources: cpi_year is a       *)
(*    stand-in series over CpiFirstYear..CpiLastYear with positive values. *)
(***************************************************************************)
EXTENDS Integers, Sequences, FiniteSets, TLC

VARIABLES
    salaries,            \* the dict of the input table / the salaries_dict argument
    checkbox,            \* 'Use a single reference year'
    min_year,            \* line 98 (None while not computed)
    reference_year,      \* what st.slider returned (None while not rendered)
    target_year,         \* the target_year argument of the call
    error,               \* "none" or the name of the exception that ended the run
    densified,           \* whether lines 69-71 had built all_salaries when the call ended
    adjusted_salaries,   \* the returned frame (<<>> when nothing was returned)
    pc                   \* "ready" | "returned" (direct call) | "rendered" (script run)

vars == <<salaries, checkbox, min_year, reference_year, target_year, error,
          densified, adjusted_salaries, pc>>

---------------------------------------------------------------------------
(* Bounds of the model *)

MaxRows == 3

(* Program constants *)

CpiFirstYear == 1988
CpiLastYear == 2024
RangeStop == 2025
SliderMax == 2024
SliderDefault == 2002

None == 0
NaN == -1

(* Years and salaries the inputs are drawn from: the keys and two of the   *)
(* values of the default table (line 90), one year before and one year     *)
(* after the CPI series, and a missing salary.                             *)
ObsYears == {CpiFirstYear - 1, 2002, 2014, 2022, CpiLastYear + 1}
SalaryValues == {24000, 35000, NaN}
TargetChoices == {None, CpiFirstYear - 1, 2002, 2014, CpiLastYear, CpiLastYear + 1}

---------------------------------------------------------------------------
(* Arithmetic helpers *)

Min(S) == CHOOSE x \in S : \A y \in S : x <= y
Max(S) == CHOOSE x \in S : \A y \in S : x >= y

RECURSIVE GCD(_, _)
GCD(a, b) == IF b = 0 THEN a ELSE GCD(b, a % b)

Frac(n, d) == LET g == GCD(n, d) IN <<n \div g, d \div g>>
NaNFrac == <<NaN, 1>>

(* Series / scalar by a float, NaN propagating *)
Div(s, r) == IF s = NaN THEN NaNFrac ELSE Frac(s * r[2], r[1])
Mul(s, r) == IF s = NaN THEN NaNFrac ELSE Frac(s * r[1], r[2])

---------------------------------------------------------------------------
(* The CPI series and calculate_inflation *)

CpiValue(y) == 40 + (y - CpiFirstYear)
                  + ((y - CpiFirstYear) * (y - CpiFirstYear)) \div 40

(* Faulty variant: a lookup that never fails *)
KnownClamped(y) == TRUE
Known(y) == y \in CpiFirstYear..CpiLastYear

cpi_year(y) == CpiValue(y)

(* Faulty variants: the ratio inverted; the numerator off by one *)
calculate_inflation_inverted(year1, year2) == Frac(cpi_year(year1), cpi_year(year2))
calculate_inflation_shifted(year1, year2) == Frac(cpi_year(year2) + 1, cpi_year(year1))
calculate_inflation(year1, year2) == Frac(cpi_year(year2), cpi_year(year1))

---------------------------------------------------------------------------
(* calculate_adjusted_salaries *)

(* A column or frame given row by row, as the stored sequence of its rows *)
Rows(f) == f \o <<>>

Keys(d) == {d[i][1] : i \in DOMAIN d}
Value(d, y) == LET i == CHOOSE j \in DOMAIN d : d[j][1] = y IN d[i][2]

RECURSIVE SortedSeq(_)
SortedSeq(S) == IF S = {} THEN <<>>
                ELSE LET m == Min(S) IN <<m>> \o SortedSeq(S \ {m})

(* Faulty variant: the dict order kept *)
sort_index_missing(d) == d
sort_index(d) == LET ks == SortedSeq(Keys(d))
                 IN Rows([i \in 1..Len(d) |-> <<ks[i], Value(d, ks[i])>>])

(* Faulty variant: an empty index goes unnoticed *)
index_never_empty(s) == FALSE
index_is_empty(s) == Len(s) = 0

(* salaries.index[0]; only read when the index is not empty *)
index0(s) == IF Len(s) = 0 THEN RangeStop ELSE s[1][1]

(* The row labels of salaries.align(<frame over RangeIndex(index[0], 2025)>, axis=0) *)
(* (a sorted union: the keys below the range, the range, the keys above it) *)
align_index(s) ==
    LET start == index0(s)
        n == IF RangeStop > start THEN RangeStop - start ELSE 0
    IN SortedSeq({k \in Keys(s) : k < start})
         \o Rows([i \in 1..n |-> start + i - 1])
         \o SortedSeq({k \in Keys(s) : k >= start + n})

salary_column(s, index) ==
    Rows([i \in 1..Len(index) |->
            IF index[i] \in Keys(s) THEN Value(s, index[i]) ELSE NaN])

reference_column(s, index) ==
    Rows([i \in 1..Len(index) |-> IF index[i] \in Keys(s) THEN index[i] ELSE NaN])

(* Walk the column from row i on, carrying the last valid value seen *)
RECURSIVE ffill_from(_, _, _)
ffill_from(col, i, last) ==
    IF i > Len(col) THEN <<>>
    ELSE LET v == IF col[i] # NaN THEN col[i] ELSE last
         IN <<v>> \o ffill_from(col, i + 1, v)

ffill(col) == ffill_from(col, 1, NaN)

(* Walk the column from row i back, carrying the next valid value seen *)
RECURSIVE bfill_from(_, _, _)
bfill_from(col, i, next) ==
    IF i < 1 THEN <<>>
    ELSE LET v == IF col[i] # NaN THEN col[i] ELSE next
         IN bfill_from(col, i - 1, v) \o <<v>>

bfill(col) == bfill_from(col, Len(col), NaN)

to_datetime(y) == <<y, 1, 1>>

(* Faulty variant: target_year ignored *)
inflation_years_always_reference(reference, t) == reference
inflation_years(reference, t) ==
    IF t = None THEN reference ELSE Rows([i \in 1..Len(reference) |-> t])

Raised(name, built) ==
    [error |-> name, densified |-> built, frame |-> <<>>]

(* Faulty variant: bfill() applied before ffill() *)
densify_bfill_first(s) ==
    LET index == align_index(s)
        Salary == ffill(bfill(salary_column(s, index)))
        reference == ffill(bfill(reference_column(s, index)))
    IN Rows([i \in 1..Len(index) |->
              [year |-> index[i], Salary |-> Salary[i], reference |-> reference[i]]])

(* Lines 68-71: the frame over the whole year axis, both columns filled *)
densify(s) ==
    LET index == align_index(s)
        Salary == bfill(ffill(salary_column(s, index)))
        reference == bfill(ffill(reference_column(s, index)))
    IN Rows([i \in 1..Len(index) |->
              [year |-> index[i], Salary |-> Salary[i], reference |-> reference[i]]])

(* Lines 73-84 on the densified frame: the two lookups of calculate_inflation *)
(* raise KeyError for a label the CPI series does not have                   *)
adjust(all_salaries, t) ==
    LET year1 == inflation_years(Rows([i \in 1..Len(all_salaries) |->
                                         all_salaries[i].reference]), t)
    IN IF \E i \in 1..Len(all_salaries) :
            ~Known(year1[i]) \/ ~Known(all_salaries[i].year)
       THEN Raised("KeyError", TRUE)
       ELSE [error |-> "none", densified |-> TRUE,
             frame |-> Rows([i \in 1..Len(all_salaries) |->
                 LET row == all_salaries[i]
                     inflation == calculate_inflation(year1[i], row.year)
                 IN [year |-> to_datetime(row.year),
                     Salary |-> row.Salary,
                     reference |-> row.reference,
                     Eroded_Salary |-> Div(row.Salary, inflation),
                     Target_Salary |-> Mul(row.Salary, inflation)]])]

(* salaries.index[0] raises IndexError on an empty index (line 69) *)
calculate_adjusted_salaries(salaries_dict, t) ==
    LET s == sort_index(salaries_dict) IN
    IF index_is_empty(s) THEN Raised("IndexError", FALSE)
    ELSE CHOOSE r \in {adjust(all_salaries, t) : all_salaries \in {densify(s)}} : TRUE

---------------------------------------------------------------------------
(* The script: input table, checkbox, slider *)

(* st.slider(label, min_value, max_value, value): the widget keeps         *)
(* min <= value <= max by widening the bounds to the default value.        *)
slider_bounds(min_value, max_value, value) ==
    LET lo == Min({min_value, max_value})
        hi == Max({min_value, max_value})
    IN <<Min({lo, value}), Max({hi, value})>>

(* What the slider can return: its default, or a position the user chose *)
slider_values(min_value, max_value, value) ==
    LET b == slider_bounds(min_value, max_value, value)
    IN {value} \cup {y \in TargetChoices \ {None} : b[1] <= y /\ y <= b[2]}

---------------------------------------------------------------------------
(* Specification *)

Dicts == {d \in UNION {[1..n -> ObsYears \X SalaryValues] : n \in 0..MaxRows} :
            \A i, j \in DOMAIN d : i # j => d[i][1] # d[j][1]}

Init ==
    /\ salaries \in Dicts
    /\ checkbox = FALSE
    /\ min_year = None
    /\ reference_year = None
    /\ target_year = None
    /\ error = "none"
    /\ densified = FALSE
    /\ adjusted_salaries = <<>>
    /\ pc = "ready"

(* A direct call calculate_adjusted_salaries(salaries, target_year=t) *)
Calculate ==
    /\ pc = "ready"
    /\ \E t \in TargetChoices :
       \E r \in {calculate_adjusted_salaries(salaries, t)} :
         /\ target_year' = t
         /\ error' = r.error
         /\ densified' = r.densified
         /\ adjusted_salaries' = r.frame
    /\ pc' = "returned"
    /\ UNCHANGED <<salaries, checkbox, min_year, reference_year>>

(* One run of the script, lines 90-104, with the table as edited *)
RunScript ==
    /\ pc = "ready"
    /\ \E cb \in BOOLEAN :
         /\ checkbox' = cb
         /\ IF Len(salaries) = 0
            THEN /\ error' = "ValueError"
                 /\ UNCHANGED <<min_year, reference_year, target_year,
                                densified, adjusted_salaries>>
            ELSE LET m == Min(Keys(salaries)) IN
                 \E v \in slider_values(m, SliderMax, SliderDefault) :
                 \E t \in {IF cb THEN v ELSE None} :
                 \E r \in {calculate_adjusted_salaries(salaries, t)} :
                      /\ min_year' = m
                      /\ reference_year' = v
                      /\ target_year' = t
                      /\ error' = r.error
                      /\ densified' = r.densified
                      /\ adjusted_salaries' = r.frame
    /\ pc' = "rendered"
    /\ UNCHANGED salaries

Next == Calculate \/ RunScript

Spec == Init /\ [][Next]_vars

---------------------------------------------------------------------------
(* What the claims speak of *)

Done == pc \in {"returned", "rendered"}

(* The run ended normally and handed back a table *)
TableReturned == Done /\ error = "none"

ObsKeys == {salaries[i][1] : i \in DOMAIN salaries}
ObsSalary(y) == LET i == CHOOSE j \in DOMAIN salaries : salaries[j][1] = y
                IN salaries[i][2]
FrameRows == DOMAIN adjusted_salaries
RowYear(i) == adjusted_salaries[i].year[1]

(* The most recent observation year at or before year y *)
LastObs(y) == LET P == {k \in ObsKeys : k <= y}
              IN CHOOSE k \in P : \A m \in P : m <= k

(* The reference year in effect for row i under the policy of the call *)
EffectiveReference(i) == IF target_year # None THEN target_year ELSE LastObs(RowYear(i))

(* q = s / (index_of(row) / index_of(ref)) and q = s * (index_of(row) / index_of(ref)) *)
IsEroded(q, s, ref, row) ==
    IF s = NaN THEN q = NaNFrac
    ELSE q[2] > 0 /\ q[1] * CpiValue(row) = s * CpiValue(ref) * q[2]
IsTarget(q, s, ref, row) ==
    IF s = NaN THEN q = NaNFrac
    ELSE q[2] > 0 /\ q[1] * CpiValue(ref) = s * CpiValue(row) * q[2]

OutOfRangeObservation == \E k \in ObsKeys : k < CpiFirstYear \/ k > CpiLastYear
MissingSalaryYears == {k \in ObsKeys : ObsSalary(k) = NaN}

---------------------------------------------------------------------------
(* C1: whenever a table is returned it has exactly one row per integer     *)
(* year from the earliest observation year through the last year of the    *)
(* CPI series, in ascending order, and no other row.                       *)
C1_YearAxis ==
    TableReturned =>
        LET first == CHOOSE k \in ObsKeys : \A m \in ObsKeys : k <= m
        IN /\ Len(adjusted_salaries) = CpiLastYear - first + 1
           /\ \A i \in FrameRows : adjusted_salaries[i].year = <<first + i - 1, 1, 1>>

(* Reached: a table made from observations supplied out of year order *)
C1_Witness ==
    /\ pc = "returned" /\ error = "none"
    /\ Len(salaries) >= 2 /\ salaries[1][1] > salaries[2][1]
    /\ Len(adjusted_salaries) > Len(salaries)

(* C2: in a returned table every row's salary equals the salary of the     *)
(* most recent observation at or before the row's year.                    *)
C2_StepHold ==
    TableReturned =>
        \A i \in FrameRows : adjusted_salaries[i].Salary = ObsSalary(LastObs(RowYear(i)))

(* The same statement over the tables in whose input every salary is a     *)
(* number: the step-hold itself, which the code does keep.                 *)
StepHoldOfNumericSalaries ==
    (TableReturned /\ MissingSalaryYears = {}) =>
        \A i \in FrameRows : adjusted_salaries[i].Salary = ObsSalary(LastObs(RowYear(i)))

(* C3: for every row of a returned table eroded_salary = salary / r and    *)
(* target_salary = salary * r, r = index_of(row year) / index_of(ref year),*)
(* the reference year being the chosen year under Fixed and the most       *)
(* recent observation year at or before the row under Floating.            *)
C3_ErodedAndTarget ==
    TableReturned =>
        \A i \in FrameRows :
            LET row == adjusted_salaries[i] IN
            /\ IsEroded(row.Eroded_Salary, row.Salary, EffectiveReference(i), RowYear(i))
            /\ IsTarget(row.Target_Salary, row.Salary, EffectiveReference(i), RowYear(i))

(* Reached: a row whose ratio is not 1, so that the two columns differ *)
C3_Witness ==
    /\ TableReturned
    /\ \E i \in FrameRows :
         /\ adjusted_salaries[i].Salary # NaN
         /\ EffectiveReference(i) # RowYear(i)
         /\ adjusted_salaries[i].Eroded_Salary # adjusted_salaries[i].Target_Salary

(* C4: under the Floating policy (target_year is None) every row's         *)
(* reference year is the most recent observation year at or before the     *)
(* row's year.                                                             *)
C4_FloatingReference ==
    (TableReturned /\ target_year = None) =>
        \A i \in FrameRows : adjusted_salaries[i].reference = LastObs(RowYear(i))

(* Reached: a floating table with a later reset and rows between resets *)
C4_Witness ==
    /\ TableReturned /\ target_year = None
    /\ \E i, j \in FrameRows :
         /\ RowYear(i) \notin ObsKeys
         /\ RowYear(j) \notin ObsKeys
         /\ adjusted_salaries[i].reference # adjusted_salaries[j].reference

(* C5, as claimed: under Fixed(year) the reference year recorded in every  *)
(* row of the returned table is the chosen year (stated over the           *)
(* observation sets whose salaries are all numbers).                       *)
C5_RecordedReferenceIsChosenYear ==
    (TableReturned /\ target_year # None /\ MissingSalaryYears = {}) =>
        \A i \in FrameRows : adjusted_salaries[i].reference = target_year

(* C5, amended: under Fixed(year) every row's eroded and target salaries   *)
(* are taken against the one chosen year, while the reference column of    *)
(* the returned table still records the most recent observation year at    *)
(* or before the row.                                                      *)
C5_FixedReference ==
    (TableReturned /\ target_year # None) =>
        \A i \in FrameRows :
            LET row == adjusted_salaries[i] IN
            /\ row.reference = LastObs(RowYear(i))
            /\ IsEroded(row.Eroded_Salary, row.Salary, target_year, RowYear(i))
            /\ IsTarget(row.Target_Salary, row.Salary, target_year, RowYear(i))

(* Reached: a fixed-year table with several observations, one of whose     *)
(* rows records another year than the chosen one                           *)
C5_Witness ==
    /\ TableReturned /\ target_year # None /\ Len(salaries) >= 2
    /\ \E i \in FrameRows :
         /\ adjusted_salaries[i].reference # target_year
         /\ adjusted_salaries[i].Salary # NaN

C7_RejectedBeforeDensification ==
    (Done /\ OutOfRangeObservation /\ MissingSalaryYears = {}) =>
        (error # "none" /\ adjusted_salaries = <<>> /\ ~densified)

(* C7, amended: an observation year outside the CPI series makes the run   *)
(* fail with the KeyError of the CPI lookup, which is raised after the     *)
(* year axis was densified; no table is returned and no row is given a     *)
(* substituted index value.                                                *)
C7_OutOfRangeFails ==
    (Done /\ OutOfRangeObservation) =>
        (error = "KeyError" /\ adjusted_salaries = <<>> /\ densified)

(* Reached: a failed call whose observations are one in range, one not *)
C7_Witness ==
    /\ pc = "returned" /\ error = "KeyError"
    /\ \E k \in ObsKeys : k > CpiLastYear
    /\ \E k \in ObsKeys : k >= CpiFirstYear /\ k <= CpiLastYear

(* C8: when an observation's salary is missing the computation aborts and  *)
(* no table is returned in which that observation's year carries a salary  *)
(* or a reference year (the claim names the error InvalidInputError; the   *)
(* formula asks only for some error and for no such row).                  *)
C8_MissingSalaryAborts ==
    (Done /\ MissingSalaryYears # {}) =>
        /\ error # "none"
        /\ \A i \in FrameRows : RowYear(i) \notin MissingSalaryYears

(* C9: in every returned row whose effective reference year is the row's   *)
(* own year, eroded_salary = target_salary = salary.                       *)
C9_OwnYearDegeneracy ==
    TableReturned =>
        \A i \in FrameRows :
            EffectiveReference(i) = RowYear(i) =>
                LET row == adjusted_salaries[i]
                    same == IF row.Salary = NaN THEN NaNFrac ELSE <<row.Salary, 1>>
                IN row.Eroded_Salary = same /\ row.Target_Salary = same

(* Reached: a fixed-year table holding the row of the chosen year and a    *)
(* row that inflation has moved                                            *)
C9_Witness ==
    /\ TableReturned /\ target_year # None
    /\ \E i, j \in FrameRows :
         /\ RowYear(i) = target_year
         /\ adjusted_salaries[i].Salary # NaN
         /\ adjusted_salaries[j].Eroded_Salary # adjusted_salaries[j].Target_Salary

(* C10: for every non-empty observation set the value of the reference-    *)
(* year selector, its initial default included, lies in                    *)
(* [min observation year, max CPI year], and so does the Fixed(year)       *)
(* passed to the adjuster (stated over the observation sets whose salaries *)
(* are all numbers).                                                       *)
C10_SelectorWithinBounds ==
    (pc = "rendered" /\ Len(salaries) > 0 /\ MissingSalaryYears = {}) =>
        /\ min_year <= reference_year /\ reference_year <= CpiLastYear
        /\ checkbox => (min_year <= target_year /\ target_year <= CpiLastYear)

=============================================================================
